---- MODULE Spec2Model ----
(***************************************************************************)
(* State-machine model of the CPU ray tracer (src/CPU/Main.cpp).           *)
(*                                                                         *)
(* float values are modelled as fixed-point integers: the integer n        *)
(* stands for the real n / SCALE, every multiplication and division is     *)
(* rounded to the nearest representable value (as IEEE arithmetic rounds   *)
(* to the nearest float) and INFINITY is a value above every finite one.   *)
(* The image size and the sphere count are compile-time constants of the   *)
(* program (1024, 1024, 10); the model draws them from small ranges.  A    *)
(* size of 1 and a count of 1 are left out: they divide by zero and the    *)
(* coordinates become NaN, which the fixed-point values do not represent.  *)
(***************************************************************************)
EXTENDS Integers, Sequences, FiniteSets, TLC

VARIABLES pc, WIDTH, HEIGHT, N_SPHERES, LIGHT, ORIGIN, scene, out,
          i, j, k, u, v, r, best_t, hit_id, pixelColor, arg, ret

vars == <<pc, WIDTH, HEIGHT, N_SPHERES, LIGHT, ORIGIN, scene, out,
          i, j, k, u, v, r, best_t, hit_id, pixelColor, arg, ret>>

\* ------------------------------------------------------------------------
\* Bounds of the model
\* ------------------------------------------------------------------------
SCALE == 1000
MaxWidth == 5
MaxHeight == 5
MaxSpheres == 4
MaxFixture == 3

\* ------------------------------------------------------------------------
\* float arithmetic
\* ------------------------------------------------------------------------
INFINITY == 2147483647

\* a / b rounded to the nearest integer (b > 0)
RDiv(a, b) == (2 * a + b) \div (2 * b)

\* the float literal num/den
F(num, den) == RDiv(num * SCALE, den)

\* conversion int -> float
ToFloat(n) == n * SCALE

FMul(a, b) == (2 * a * b + SCALE) \div (2 * SCALE)

FDiv[a \in Int, b \in Int] == IF b > 0 THEN RDiv(a * SCALE, b) ELSE -RDiv(a * SCALE, -b)

\* The operations below that use an argument more than once are functions:
\* TLC evaluates the argument of a function application once, before the body.

\* the largest base + d*step (d in 0..15) whose square is at most n
SqrtDigit[n \in Nat, base \in Nat, step \in Nat] ==
    LET Fits(d) == base + d * step <= 46340
                   /\ (base + d * step) * (base + d * step) <= n
    IN  base + step * (CHOOSE d \in 0..15 : Fits(d) /\ (d = 15 \/ ~Fits(d + 1)))

\* integer square root (0 <= n < 2^31), digit by digit in base 16
ISqrt[n \in Nat] ==
    SqrtDigit[n, SqrtDigit[n, SqrtDigit[n, SqrtDigit[n, 0, 4096], 256], 16], 1]

\* sqrtf on fixed-point values: sqrt(a/SCALE)*SCALE = sqrt(a*SCALE)
sqrtf(a) == ISqrt[a * SCALE]

fmaxf(a, b) == IF a > b THEN a ELSE b

\* a^n by repeated squaring; a function, so that TLC evaluates the
\* arguments before it descends
PowN[a \in Int, n \in Nat] ==
    IF n = 0 THEN ToFloat(1)
    ELSE IF n % 2 = 0 THEN PowN[FMul(a, a), n \div 2]
    ELSE FMul(a, PowN[FMul(a, a), n \div 2])

\* powf with an integral exponent (shin = 32.0f is the only exponent used)
powf(a, e) == PowN[a, e \div SCALE]

\* C++ float -> int conversion: truncation toward zero
ToInt(a) == IF a >= 0 THEN a \div SCALE ELSE -((-a) \div SCALE)

\* floor() of a float, as a float
floor(a) == (a \div SCALE) * SCALE

\* ------------------------------------------------------------------------
\* Vec, Ray, Sphere
\* ------------------------------------------------------------------------
Vec(a, b, c) == [x |-> a, y |-> b, z |-> c]

Vec3 == [x : Int, y : Int, z : Int]

VAdd[a \in Vec3, b \in Vec3] == Vec(a.x + b.x, a.y + b.y, a.z + b.z)

VSub[a \in Vec3, b \in Vec3] == Vec(a.x - b.x, a.y - b.y, a.z - b.z)

\* float * Vec
VScale[s \in Int, a \in Vec3] == Vec(FMul(s, a.x), FMul(s, a.y), FMul(s, a.z))

\* Vec / float
VDiv[a \in Vec3, s \in Int] == Vec(FDiv[a.x, s], FDiv[a.y, s], FDiv[a.z, s])

dot[a \in Vec3, b \in Vec3] == RDiv(a.x * b.x + a.y * b.y + a.z * b.z, SCALE)

\* the Euclidean length: sqrt of the sum of squares, taken before rounding
Length[a \in Vec3] == ISqrt[a.x * a.x + a.y * a.y + a.z * a.z]

norm[a \in Vec3] == VDiv[a, Length[a]]

Ray(origin, dir) == [A |-> origin, B |-> dir]

Rays == [A : Vec3, B : Vec3]

\* Ray::P(t): the point at parameter t
RayP[ray \in Rays, t \in Int] == VAdd[ray.A, VScale[t, ray.B]]

Sphere(center, radius, color, refl) ==
    [c |-> center, r |-> radius, col |-> color, refl |-> refl]

ZeroVec == Vec(0, 0, 0)

\* ------------------------------------------------------------------------
\* Functions of Main.cpp
\* ------------------------------------------------------------------------
\* disc = b*b - c of intersect_sphere
Disc(s, ray) ==
    LET Oc == VSub[ray.A, s.c]
        b  == dot[ray.B, Oc]
        c  == dot[Oc, Oc] - FMul(s.r, s.r)
    IN  FMul(b, b) - c

\* t = -b - sqrtf(disc) of intersect_sphere (when disc >= 0)
NearRoot(s, ray) ==
    LET Oc == VSub[ray.A, s.c]
        b  == dot[ray.B, Oc]
    IN  -b - sqrtf(Disc(s, ray))

\* mutant: the near root zero counts as a hit (t >= 0)
intersect_sphere_NonNeg(s, ray) ==
    IF Disc(s, ray) < 0 THEN INFINITY
    ELSE LET t == NearRoot(s, ray)
         IN  IF t >= 0 THEN t ELSE INFINITY

intersect_sphere(s, ray) ==
    IF Disc(s, ray) < 0 THEN INFINITY
    ELSE LET t == NearRoot(s, ray)
         IN  IF t > 0 THEN t ELSE INFINITY

phong_shade(P, N, V, Lpos, Kd, Ks, shin) ==
    LET ambient  == VScale[F(1, 10), Kd]
        L        == norm[VSub[Lpos, P]]
        diff     == fmaxf(dot[N, L], 0)
        diffuse  == VScale[diff, Kd]
        R        == norm[VSub[VScale[FMul(ToFloat(2), dot[N, L]), N], L]]
        spec     == powf(fmaxf(dot[R, V], 0), shin)
        specular == VScale[spec, Ks]
    IN  VAdd[VAdd[ambient, diffuse], specular]

\* int(a * num/den) for a >= 0: the product is taken exactly (a float product
\* is exact to 2^-24, far below the grid of the model) and then truncated
IntOfProduct(a, num, den) == (a * num) \div (den * SCALE)

\* mutant: the upper clamp is missing
clip_NoUpper(c) ==
    IF c <= 0 THEN 0
    ELSE IntOfProduct(c, 255999, 1000)

clip(c) ==
    IF c <= 0 THEN 0
    ELSE IF c >= ToFloat(1) THEN 255
    ELSE IntOfProduct(c, 255999, 1000)

\* the three channel values written for a pixel colour
Triplet(col) == <<clip(col.x), clip(col.y), clip(col.z)>>

\* mutant: the spheres come forward instead of receding (z = -2 + 0.5 i)
MakeSphere_Forward(n, count) ==
    LET y     == -ToFloat(1) + FMul(ToFloat(n), FDiv[ToFloat(2), ToFloat(count - 1)])
        z     == -ToFloat(2) + FMul(ToFloat(n), F(1, 2))
        t     == FDiv[ToFloat(count - n), ToFloat(count)]
        color == Vec(t, F(1, 2), ToFloat(1) - t)
    IN  Sphere(Vec(0, y, z), F(3, 4), color, 0)

\* mutant: the stack starts at the camera depth (z = 2 - 0.5 i)
MakeSphere_AtCamera(n, count) ==
    LET y     == -ToFloat(1) + FMul(ToFloat(n), FDiv[ToFloat(2), ToFloat(count - 1)])
        z     == ToFloat(2) - FMul(ToFloat(n), F(1, 2))
        t     == FDiv[ToFloat(count - n), ToFloat(count)]
        color == Vec(t, F(1, 2), ToFloat(1) - t)
    IN  Sphere(Vec(0, y, z), F(3, 4), color, 0)

\* the sphere built by iteration n of the construction loop
MakeSphere(n, count) ==
    LET y     == -ToFloat(1) + FMul(ToFloat(n), FDiv[ToFloat(2), ToFloat(count - 1)])
        z     == -ToFloat(2) - FMul(ToFloat(n), F(1, 2))
        t     == FDiv[ToFloat(count - n), ToFloat(count)]
        color == Vec(t, F(1, 2), ToFloat(1) - t)
    IN  Sphere(Vec(0, y, z), F(3, 4), color, 0)

\* normalized screen coordinate of pixel index n on an axis of size pixels
ScreenCoord(n, size) ==
    -ToFloat(1) + FDiv[FMul(ToFloat(2), ToFloat(n)), ToFloat(size - 1)]

\* the camera ray through screen point (su, sv)
CameraRay(su, sv, eye) == Ray(eye, norm[VSub[Vec(su, sv, 0), eye]])

\* mutant: an equal distance replaces the best one (t <= best_t)
Closer_OrEqual(t, best) == t <= best

\* line 83: does distance t replace the best distance so far
Closer(t, best) == t < best

\* mutant: the guard admits the initial hit_id (hit_id >= -1)
HasHit_Loose(id) == id >= -1

\* line 90: is the shading branch taken
HasHit(id) == id >= 0

\* mutant: the parity test is inverted
White_Odd(su, sv) ==
    LET ix == ToInt(floor(FMul(su + ToFloat(1), ToFloat(5))))
        iy == ToInt(floor(FMul(sv + ToFloat(1), ToFloat(5))))
    IN  ((ix + iy) % 2) = 1

\* lines 100-102: is (su, sv) on a light cell of the checkerboard
White(su, sv) ==
    LET ix == ToInt(floor(FMul(su + ToFloat(1), ToFloat(5))))
        iy == ToInt(floor(FMul(sv + ToFloat(1), ToFloat(5))))
    IN  ((ix + iy) % 2) = 0

LightColor == Vec(F(9, 10), F(9, 10), F(9, 10))
DarkColor  == Vec(F(1, 10), F(1, 10), F(1, 10))

\* lines 92-97: the colour of the point hit at distance t on sphere s
ShadeHit(ray, t, s, eye, light) ==
    LET P  == RayP[ray, t]
        N  == norm[VSub[P, s.c]]
        Vc == norm[VSub[eye, P]]
        Kd == s.col
        Ks == Vec(ToFloat(1), ToFloat(1), ToFloat(1))
    IN  phong_shade(P, N, Vc, light, Kd, Ks, ToFloat(32))

\* ------------------------------------------------------------------------
\* main()
\* ------------------------------------------------------------------------
Header(w, h) == [kind |-> "header", magic |-> "P3", width |-> w, height |-> h, maxval |-> 255]

Pixel(pi, pj, rgb) == [kind |-> "pixel", i |-> pi, j |-> pj, rgb |-> rgb]

Init ==
    /\ pc = "build"
    /\ WIDTH \in 2..MaxWidth
    /\ HEIGHT \in 2..MaxHeight
    /\ N_SPHERES \in {0} \cup (2..MaxSpheres)
    /\ LIGHT = Vec(-ToFloat(5), -ToFloat(5), ToFloat(10))
    /\ ORIGIN = Vec(0, 0, ToFloat(2))
    /\ scene = <<>>
    /\ out = <<>>
    /\ i = 0
    /\ j = 0
    /\ k = 0
    /\ u = 0
    /\ v = 0
    /\ r = Ray(ZeroVec, ZeroVec)
    /\ best_t = INFINITY
    /\ hit_id = -1
    /\ pixelColor = ZeroVec
    /\ arg = <<>>
    /\ ret = <<>>

\* lines 58-64: one iteration of the construction loop
BuildSphere ==
    /\ pc = "build"
    /\ i < N_SPHERES
    /\ scene' = Append(scene, MakeSphere(i, N_SPHERES))
    /\ i' = i + 1
    /\ UNCHANGED <<pc, WIDTH, HEIGHT, N_SPHERES, LIGHT, ORIGIN, out,
                   j, k, u, v, r, best_t, hit_id, pixelColor, arg, ret>>

\* mutant: the row loop starts at j = HEIGHT
EmitHeader_OffByOne ==
    /\ pc = "build"
    /\ ~(i < N_SPHERES)
    /\ out' = Append(out, Header(WIDTH, HEIGHT))
    /\ j' = HEIGHT
    /\ pc' = "row"
    /\ UNCHANGED <<WIDTH, HEIGHT, N_SPHERES, LIGHT, ORIGIN, scene,
                   i, k, u, v, r, best_t, hit_id, pixelColor, arg, ret>>

\* lines 58, 67, 70: the construction loop ends, the header is written and
\* the row loop is initialised
EmitHeader ==
    /\ pc = "build"
    /\ ~(i < N_SPHERES)
    /\ out' = Append(out, Header(WIDTH, HEIGHT))
    /\ j' = HEIGHT - 1
    /\ pc' = "row"
    /\ UNCHANGED <<WIDTH, HEIGHT, N_SPHERES, LIGHT, ORIGIN, scene,
                   i, k, u, v, r, best_t, hit_id, pixelColor, arg, ret>>

\* lines 70-71: the row loop continues, the column loop is initialised
RowEnter ==
    /\ pc = "row"
    /\ j >= 0
    /\ i' = 0
    /\ pc' = "col"
    /\ UNCHANGED <<WIDTH, HEIGHT, N_SPHERES, LIGHT, ORIGIN, scene, out,
                   j, k, u, v, r, best_t, hit_id, pixelColor, arg, ret>>

\* lines 70, 115: the row loop ends and main returns 0
Return ==
    /\ pc = "row"
    /\ ~(j >= 0)
    /\ pc' = "done"
    /\ UNCHANGED <<WIDTH, HEIGHT, N_SPHERES, LIGHT, ORIGIN, scene, out,
                   i, j, k, u, v, r, best_t, hit_id, pixelColor, arg, ret>>

\* mutant: best_t and hit_id are declared outside the loops and not reset
CastRay_Stale ==
    /\ pc = "col"
    /\ i < WIDTH
    /\ u' = ScreenCoord(i, WIDTH)
    /\ v' = ScreenCoord(j, HEIGHT)
    /\ r' = CameraRay(u', v', ORIGIN)
    /\ k' = 0
    /\ pc' = "scan"
    /\ UNCHANGED <<WIDTH, HEIGHT, N_SPHERES, LIGHT, ORIGIN, scene, out,
                   i, j, best_t, hit_id, pixelColor, arg, ret>>

\* lines 71-81: the column loop continues: the ray of pixel (i, j) is built
\* and the scan is initialised
CastRay ==
    /\ pc = "col"
    /\ i < WIDTH
    /\ u' = ScreenCoord(i, WIDTH)
    /\ v' = ScreenCoord(j, HEIGHT)
    /\ r' = CameraRay(u', v', ORIGIN)
    /\ best_t' = INFINITY
    /\ hit_id' = -1
    /\ k' = 0
    /\ pc' = "scan"
    /\ UNCHANGED <<WIDTH, HEIGHT, N_SPHERES, LIGHT, ORIGIN, scene, out,
                   i, j, pixelColor, arg, ret>>

\* lines 71, 70: the column loop ends, the row loop steps
RowEnd ==
    /\ pc = "col"
    /\ ~(i < WIDTH)
    /\ j' = j - 1
    /\ pc' = "row"
    /\ UNCHANGED <<WIDTH, HEIGHT, N_SPHERES, LIGHT, ORIGIN, scene, out,
                   i, k, u, v, r, best_t, hit_id, pixelColor, arg, ret>>

\* lines 81-87: one iteration of the scan over the spheres
ScanSphere ==
    /\ pc = "scan"
    /\ k < N_SPHERES
    /\ LET t == intersect_sphere(scene[k + 1], r)
       IN  IF Closer(t, best_t)
           THEN best_t' = t /\ hit_id' = k
           ELSE UNCHANGED <<best_t, hit_id>>
    /\ k' = k + 1
    /\ UNCHANGED <<pc, WIDTH, HEIGHT, N_SPHERES, LIGHT, ORIGIN, scene, out,
                   i, j, u, v, r, pixelColor, arg, ret>>

\* lines 81, 90, 98: the scan ends and the colour branch is chosen
Branch ==
    /\ pc = "scan"
    /\ ~(k < N_SPHERES)
    /\ pc' = IF HasHit(hit_id) THEN "shade" ELSE "checker"
    /\ UNCHANGED <<WIDTH, HEIGHT, N_SPHERES, LIGHT, ORIGIN, scene, out,
                   i, j, k, u, v, r, best_t, hit_id, pixelColor, arg, ret>>

\* lines 91-97: Phong shading of the hit
Shade ==
    /\ pc = "shade"
    /\ pixelColor' = ShadeHit(r, best_t, scene[hit_id + 1], ORIGIN, LIGHT)
    /\ pc' = "write"
    /\ UNCHANGED <<WIDTH, HEIGHT, N_SPHERES, LIGHT, ORIGIN, scene, out,
                   i, j, k, u, v, r, best_t, hit_id, arg, ret>>

\* lines 99-104: checkered background
Background ==
    /\ pc = "checker"
    /\ pixelColor' = IF White(u, v) THEN LightColor ELSE DarkColor
    /\ pc' = "write"
    /\ UNCHANGED <<WIDTH, HEIGHT, N_SPHERES, LIGHT, ORIGIN, scene, out,
                   i, j, k, u, v, r, best_t, hit_id, arg, ret>>

\* mutant: the column loop steps by two
WritePixel_Skip ==
    /\ pc = "write"
    /\ out' = Append(out, Pixel(i, j, Triplet(pixelColor)))
    /\ i' = i + 2
    /\ pc' = "col"
    /\ UNCHANGED <<WIDTH, HEIGHT, N_SPHERES, LIGHT, ORIGIN, scene,
                   j, k, u, v, r, best_t, hit_id, pixelColor, arg, ret>>

\* lines 108-111, 71: the pixel is written and the column loop steps
WritePixel ==
    /\ pc = "write"
    /\ out' = Append(out, Pixel(i, j, Triplet(pixelColor)))
    /\ i' = i + 1
    /\ pc' = "col"
    /\ UNCHANGED <<WIDTH, HEIGHT, N_SPHERES, LIGHT, ORIGIN, scene,
                   j, k, u, v, r, best_t, hit_id, pixelColor, arg, ret>>

Next ==
    \/ BuildSphere
    \/ EmitHeader
    \/ RowEnter
    \/ Return
    \/ CastRay
    \/ RowEnd
    \/ ScanSphere
    \/ Branch
    \/ Shade
    \/ Background
    \/ WritePixel

Spec == Init /\ [][Next]_vars

\* the program is one sequential thread that always takes its next step
FairSpec == Spec /\ WF_vars(Next)

\* ------------------------------------------------------------------------
\* Unit harnesses for the pure functions: the arguments are drawn in the
\* initial state and one step applies the function
\* ------------------------------------------------------------------------
Idle(label, input) ==
    /\ pc = label
    /\ arg = input
    /\ ret = <<>>
    /\ WIDTH = 2
    /\ HEIGHT = 2
    /\ N_SPHERES = 2
    /\ LIGHT = Vec(-ToFloat(5), -ToFloat(5), ToFloat(10))
    /\ ORIGIN = Vec(0, 0, ToFloat(2))
    /\ scene = <<>>
    /\ out = <<>>
    /\ i = 0
    /\ j = 0
    /\ k = 0
    /\ u = 0
    /\ v = 0
    /\ r = Ray(ZeroVec, ZeroVec)
    /\ best_t = INFINITY
    /\ hit_id = -1
    /\ pixelColor = ZeroVec

Frame ==
    UNCHANGED <<WIDTH, HEIGHT, N_SPHERES, LIGHT, ORIGIN, scene, out,
                i, j, k, u, v, r, best_t, hit_id, pixelColor, arg>>

\* colour components from -1.0 to 2.0
ClipInputs == (-SCALE)..(2 * SCALE)

ClipInit == \E c \in ClipInputs : Idle("clip", c)

\* lines 49-53: one call of clip
ClipCall ==
    /\ pc = "clip"
    /\ ret' = clip(arg)
    /\ pc' = "clip_ret"
    /\ Frame

\* the render together with the calls of clip on drawn components
ClipSpec == (Init \/ ClipInit) /\ [][Next \/ ClipCall]_vars

Halves == {n * F(1, 2) : n \in -4..4}

IsectSpheres ==
    {Sphere(Vec(0, cy, cz), rad, ZeroVec, 0) :
        cy \in {0, ToFloat(1)}, cz \in Halves, rad \in {F(1, 2), ToFloat(1), F(3, 2)}}

IsectRays ==
    {Ray(Vec(0, 0, oz), norm[Vec(dx, dy, -ToFloat(1))]) :
        oz \in {0, ToFloat(2)}, dx \in {0, F(1, 2)}, dy \in {-F(1, 2), 0, ToFloat(1)}}

IsectInit ==
    \E s \in IsectSpheres : \E ray \in IsectRays : Idle("isect", [s |-> s, ray |-> ray])

\* lines 22-30: one call of intersect_sphere
IsectCall ==
    /\ pc = "isect"
    /\ ret' = intersect_sphere(arg.s, arg.ray)
    /\ pc' = "isect_ret"
    /\ Frame

IsectSpec == IsectInit /\ [][IsectCall]_vars

\* ------------------------------------------------------------------------
\* The render of a fixture scene: the construction loop is replaced by a
\* scene drawn from a few spheres, two of them mirror images in the plane
\* x = 0, so that the ray through the image centre meets both at one distance
\* ------------------------------------------------------------------------
FixtureSpheres ==
    {Sphere(Vec(cx, cy, cz), F(3, 4), Vec(ToFloat(1), F(1, 2), 0), 0) :
        <<cx, cy, cz>> \in {<<-F(1, 2), 0, -ToFloat(2)>>, <<F(1, 2), 0, -ToFloat(2)>>,
                            <<0, 0, -ToFloat(3)>>, <<0, ToFloat(3), -ToFloat(2)>>}}

FixtureScenes == UNION {[1..m -> FixtureSpheres] : m \in 0..MaxFixture}

FixtureInit ==
    \E sc \in FixtureScenes :
        /\ pc = "row"
        /\ WIDTH = 3
        /\ HEIGHT = 3
        /\ N_SPHERES = Len(sc)
        /\ LIGHT = Vec(-ToFloat(5), -ToFloat(5), ToFloat(10))
        /\ ORIGIN = Vec(0, 0, ToFloat(2))
        /\ scene = sc
        /\ out = <<Header(3, 3)>>
        /\ i = Len(sc)
        /\ j = 2
        /\ k = 0
        /\ u = 0
        /\ v = 0
        /\ r = Ray(ZeroVec, ZeroVec)
        /\ best_t = INFINITY
        /\ hit_id = -1
        /\ pixelColor = ZeroVec
        /\ arg = <<>>
        /\ ret = <<>>

\* the render of the program's scene and of the fixture scenes
FixtureSpec == (Init \/ FixtureInit) /\ [][Next]_vars

\* ------------------------------------------------------------------------
\* Properties
\* ------------------------------------------------------------------------
\* the pixels written so far (everything after the header)
PixelsOut == 2..Len(out)

\* the indices of the spheres a ray hits
HitSet(ray) ==
    {n \in 0..(Len(scene) - 1) : intersect_sphere(scene[n + 1], ray) # INFINITY}

\* the ray of pixel (pi, pj)
PixelRay(pi, pj) ==
    CameraRay(ScreenCoord(pi, WIDTH), ScreenCoord(pj, HEIGHT), ORIGIN)

\* C1: the header is written once, before every pixel, and the n-th triplet
\* belongs to pixel (n mod WIDTH, HEIGHT-1 - n div WIDTH): rows with j
\* descending, i ascending within a row.
OutputOrdered ==
    /\ pc = "build" => out = <<>>
    /\ pc \in {"row", "col", "scan", "shade", "checker", "write", "done"} =>
          /\ Len(out) >= 1
          /\ out[1] = Header(WIDTH, HEIGHT)
          /\ \A n \in PixelsOut :
                /\ out[n].kind = "pixel"
                /\ out[n].i = (n - 2) % WIDTH
                /\ out[n].j = HEIGHT - 1 - ((n - 2) \div WIDTH)

OutputOrderedWitness ==
    /\ pc = "done"
    /\ WIDTH = 3
    /\ HEIGHT = 4
    /\ Len(out) = 13
    /\ out[13].i = 2
    /\ out[13].j = 0

\* every pixel of the image has been written exactly once
Complete ==
    /\ Len(out) = WIDTH * HEIGHT + 1
    /\ \A a \in 0..(WIDTH - 1) : \A b \in 0..(HEIGHT - 1) :
          Cardinality({n \in PixelsOut : out[n].i = a /\ out[n].j = b}) = 1

\* C2: the render always reaches the exit, and there exactly WIDTH*HEIGHT
\* triplets have been written, one for each pixel.
RenderTerminates ==
    /\ <>(pc = "done")
    /\ [](pc = "done" => Complete)

RenderTerminatesWitness ==
    /\ pc = "done"
    /\ WIDTH = 4
    /\ HEIGHT = 3
    /\ N_SPHERES = 3
    /\ Complete

\* channel value n is the quantization of component c
Quantized(c, n) ==
    /\ n \in 0..255
    /\ c <= 0 => n = 0
    /\ c >= SCALE => n = 255
    /\ (0 < c /\ c < SCALE) =>
          /\ n * 1000 * SCALE <= c * 255999
          /\ c * 255999 < (n + 1) * 1000 * SCALE

\* C3: clip(c) is 0 for c <= 0, 255 for c >= 1 and floor(c * 255.999)
\* otherwise; every channel written is in 0..255 and is the clip of the
\* component of the pixel colour.
ClipQuantizes ==
    /\ pc = "clip_ret" => Quantized(arg, ret)
    /\ (pc = "clip_ret" /\ arg = 0) => ret = 0
    /\ (pc = "clip_ret" /\ arg = SCALE) => ret = 255
    /\ (pc = "clip_ret" /\ arg = SCALE - 1) => ret = 255
    /\ \A n \in PixelsOut : \A m \in 1..3 : out[n].rgb[m] \in 0..255
    /\ (pc = "col" /\ i > 0) =>
          /\ Quantized(pixelColor.x, out[Len(out)].rgb[1])
          /\ Quantized(pixelColor.y, out[Len(out)].rgb[2])
          /\ Quantized(pixelColor.z, out[Len(out)].rgb[3])

\* the largest component below 1.0 is quantized to 255 by the floor rule
ClipQuantizesWitness ==
    /\ pc = "clip_ret"
    /\ arg = SCALE - 1
    /\ ret = 255

\* C4: after the scan best_t is the least hit distance over all spheres,
\* hit_id the first index with that distance, and hit_id = -1 exactly when
\* no sphere is hit; the scan has visited every sphere.
NearestHit ==
    pc \in {"shade", "checker"} =>
        LET dist(n) == intersect_sphere(scene[n + 1], r)
            hits    == HitSet(r)
        IN  /\ k = N_SPHERES
            /\ Len(scene) = N_SPHERES
            /\ (hit_id = -1) <=> (hits = {})
            /\ hits # {} =>
                  /\ hit_id \in hits
                  /\ best_t = dist(hit_id)
                  /\ \A n \in hits : best_t <= dist(n)
                  /\ \A n \in hits : dist(n) = best_t => hit_id <= n

\* two spheres are hit at the same least distance and the first one is kept
NearestHitWitness ==
    /\ pc = "shade"
    /\ \E n \in HitSet(r) : \E m \in HitSet(r) :
          /\ n < m
          /\ intersect_sphere(scene[n + 1], r) = best_t
          /\ intersect_sphere(scene[m + 1], r) = best_t
          /\ hit_id = n

\* C5: intersect_sphere returns NO_HIT when disc < 0 and when the near root
\* is zero or negative, and the near root otherwise; the result is NO_HIT
\* or strictly positive.
IntersectDomain ==
    pc = "isect_ret" =>
        /\ Disc(arg.s, arg.ray) < 0 => ret = INFINITY
        /\ (Disc(arg.s, arg.ray) >= 0 /\ NearRoot(arg.s, arg.ray) <= 0) => ret = INFINITY
        /\ (Disc(arg.s, arg.ray) >= 0 /\ NearRoot(arg.s, arg.ray) > 0) =>
              ret = NearRoot(arg.s, arg.ray)
        /\ ret = INFINITY \/ ret > 0

\* the near root is exactly zero: the ray starts on the sphere
IntersectDomainWitness ==
    /\ pc = "isect_ret"
    /\ Disc(arg.s, arg.ray) >= 0
    /\ NearRoot(arg.s, arg.ray) = 0
    /\ ret = INFINITY

\* C6: a pixel whose ray hits no sphere is light exactly when
\* floor((u+1)*5) + floor((v+1)*5) is even, and dark otherwise.
Checkerboard ==
    (pc = "write" /\ HitSet(r) = {}) =>
        LET cx   == ((u + SCALE) * 5) \div SCALE
            cy   == ((v + SCALE) * 5) \div SCALE
            even == (cx + cy) % 2 = 0
        IN  /\ u = ScreenCoord(i, WIDTH)
            /\ v = ScreenCoord(j, HEIGHT)
            /\ even => pixelColor = LightColor
            /\ ~even => pixelColor = DarkColor

\* light and dark background pixels have both been written
CheckerboardWitness ==
    /\ pc = "write"
    /\ HitSet(r) = {}
    /\ pixelColor = DarkColor
    /\ \E n \in PixelsOut :
          /\ HitSet(PixelRay(out[n].i, out[n].j)) = {}
          /\ out[n].rgb = Triplet(LightColor)

\* the triplet of pixel (pi, pj) as a function of the pixel and the scene
PixelValue(pi, pj) ==
    LET su      == ScreenCoord(pi, WIDTH)
        sv      == ScreenCoord(pj, HEIGHT)
        ray     == PixelRay(pi, pj)
        dist(n) == intersect_sphere(scene[n + 1], ray)
        hits    == HitSet(ray)
    IN  IF hits = {}
        THEN Triplet(IF White(su, sv) THEN LightColor ELSE DarkColor)
        ELSE LET near == CHOOSE n \in hits :
                            \A m \in hits : dist(n) < dist(m) \/ (dist(n) = dist(m) /\ n <= m)
             IN  Triplet(ShadeHit(ray, dist(near), scene[near + 1], ORIGIN, LIGHT))

\* C7: every scan starts from best_t = INFINITY, hit_id = -1, and the
\* triplet written for pixel (i, j) is a function of (i, j) and the scene,
\* whatever was rendered before it.
PixelIndependent ==
    /\ (pc = "scan" /\ k = 0) => (best_t = INFINITY /\ hit_id = -1)
    /\ \A n \in PixelsOut : out[n].rgb = PixelValue(out[n].i, out[n].j)

\* a background pixel has been written right after a shaded one
PixelIndependentWitness ==
    /\ pc = "done"
    /\ \E n \in PixelsOut :
          /\ n + 1 \in PixelsOut
          /\ HitSet(PixelRay(out[n].i, out[n].j)) # {}
          /\ HitSet(PixelRay(out[n + 1].i, out[n + 1].j)) = {}

\* C8: the shading branch is entered only with a valid sphere index and a
\* finite positive best_t that is the distance to that sphere; the
\* background branch only with best_t still INFINITY.
GuardedShading ==
    /\ pc = "shade" =>
          /\ hit_id \in 0..(N_SPHERES - 1)
          /\ hit_id + 1 \in DOMAIN scene
          /\ best_t # INFINITY
          /\ best_t > 0
          /\ best_t = intersect_sphere(scene[hit_id + 1], r)
    /\ pc = "checker" => (best_t = INFINITY /\ hit_id = -1)

GuardedShadingWitness ==
    /\ pc = "shade"
    /\ hit_id = N_SPHERES - 1
    /\ best_t < INFINITY

\* the scene holds the N_SPHERES spheres of the construction rule
SceneBuilt ==
    /\ Len(scene) = N_SPHERES
    /\ \A n \in 0..(N_SPHERES - 1) :
          LET s   == scene[n + 1]
              ey  == (2 * n - (N_SPHERES - 1)) * SCALE
              ez  == -(4 + n) * SCALE
              Abs(a) == IF a < 0 THEN -a ELSE a
          IN  /\ s.c.x = 0
              /\ Abs((N_SPHERES - 1) * s.c.y - ey) <= (N_SPHERES - 1) * (n + 1)
              /\ Abs(2 * s.c.z - ez) <= 2 * (n + 1)
              /\ Abs(4 * s.r - 3 * SCALE) <= 2

\* construction is over
Rendering == pc # "build" \/ i >= N_SPHERES

\* C9: when the header is written the scene holds exactly the N_SPHERES
\* spheres of the construction rule, and from then on no step changes the
\* scene, the light or the camera.
SceneFrozen ==
    /\ [](Rendering => SceneBuilt)
    /\ [][Rendering => (scene' = scene /\ LIGHT' = LIGHT /\ ORIGIN' = ORIGIN)]_vars

SceneFrozenWitness ==
    /\ pc = "done"
    /\ N_SPHERES = 3
    /\ SceneBuilt
    /\ scene[2].c = Vec(0, 0, -F(5, 2))

\* C10: the camera, from which every ray starts, is strictly outside every
\* sphere of the scene: c = dot[oc, oc] - r^2 > 0.
CameraOutside ==
    /\ \A n \in 1..Len(scene) :
          LET Oc == VSub[ORIGIN, scene[n].c]
          IN  dot[Oc, Oc] - FMul(scene[n].r, scene[n].r) > 0
    /\ pc \in {"scan", "shade", "checker", "write"} => r.A = ORIGIN

CameraOutsideWitness ==
    /\ pc = "scan"
    /\ k = N_SPHERES
    /\ Len(scene) = N_SPHERES
    /\ N_SPHERES >= 3
    /\ r.A = ORIGIN

====
